---- MODULE Spec2Model ----
(***************************************************************************)
(* ACME transaction system: the ingestion pipeline (csv_importer.py and    *)
(* queue_consumer.py), the reports (reporting.py), the monthly report job  *)
(* (scheduled_reports.py) and the CRUD endpoints (api.py) over the         *)
(* relational store declared in models.py.                                 *)
(*                                                                         *)
(* Python values are modelled as records [t, v]: t is the Python type      *)
(* ("str", "float", "none") and v the text of the value; a key that is not *)
(* in a dict has the marker type "absent".  Error texts are the strings    *)
(* the Python runtime produces.                                            *)
(***************************************************************************)
EXTENDS Integers, Sequences, FiniteSets, TLC

(***************************************************************************)
(* Python values and raw records                                           *)
(***************************************************************************)
Str(s) == [t |-> "str", v |-> s]
Float(s) == [t |-> "float", v |-> s]
None == [t |-> "none", v |-> "None"]
Absent == [t |-> "absent", v |-> ""]

\* required_fields of validate_row and of validate_message, in list order
required_fields ==
    <<"transaction_id", "sender_id", "receiver_id", "amount", "currency",
      "timestamp", "status">>

FieldNames == {required_fields[i] : i \in 1..Len(required_fields)}

\* `field in row`
Has(row, field) == row[field].t # "absent"

\* Python truth value of a value: None, "" and 0.0 are false
Truthy(val) ==
    /\ val.t # "none"
    /\ ~(val.t = "str" /\ val.v = "")
    /\ ~(val.t = "float" /\ val.v \in {"0", "0.0"})

\* repr() of a str, str() of any value
Repr(s) == "'" \o s \o "'"
PyStr(val) == val.v

(***************************************************************************)
(* float(x): the texts the model feeds it and the number each denotes.     *)
(* A float is [k, n]: k is "fin", "nan", "inf" and n the (integral) value. *)
(***************************************************************************)
Fin(n) == [k |-> "fin", n |-> n]
NaN == [k |-> "nan", n |-> 0]
Inf == [k |-> "inf", n |-> 0]

FloatTexts ==
    {"100", "250.00", "250.0", "10000", "20000", "-5", "0", "0.0", " 12 ",
     "nan", "inf"}

FloatOfText(s) ==
    CASE s = "100" -> Fin(100)
      [] s \in {"250.00", "250.0"} -> Fin(250)
      [] s = "10000" -> Fin(10000)
      [] s = "20000" -> Fin(20000)
      [] s = "-5" -> Fin(0 - 5)
      [] s \in {"0", "0.0"} -> Fin(0)
      [] s = " 12 " -> Fin(12)
      [] s = "nan" -> NaN
      [] s = "inf" -> Inf
      [] OTHER -> Fin(0)

\* float(val): [ok, val, err]; err is str(e) of the exception raised
PyFloat(val) ==
    CASE val.t = "float" -> [ok |-> TRUE, val |-> FloatOfText(val.v), err |-> ""]
      [] val.t = "str" /\ val.v \in FloatTexts ->
            [ok |-> TRUE, val |-> FloatOfText(val.v), err |-> ""]
      [] val.t = "str" ->
            [ok |-> FALSE, val |-> Fin(0),
             err |-> "could not convert string to float: " \o Repr(val.v)]
      [] OTHER ->
            [ok |-> FALSE, val |-> Fin(0),
             err |-> "float() argument must be a string or a real number, not 'NoneType'"]

(***************************************************************************)
(* datetime.fromisoformat(x.replace("Z", "+00:00"))                        *)
(* A datetime is [y, m, d, s, tz]: date, second of the day, and the offset *)
(* ("naive" when the text carries none).                                   *)
(***************************************************************************)
\* str.replace("Z", "+00:00") on the texts of the model
ReplaceZ(s) ==
    CASE s = "2025-05-01T12:00:00Z" -> "2025-05-01T12:00:00+00:00"
      [] s = "2025-05-02T00:00:00Z" -> "2025-05-02T00:00:00+00:00"
      [] s = "Z" -> "+00:00"
      [] OTHER -> s

DateTime(y, m, d, s, tz) == [y |-> y, m |-> m, d |-> d, s |-> s, tz |-> tz]
NoDateTime == DateTime(0, 0, 0, 0, "naive")

IsoTexts ==
    {"2025-05-01T12:00:00+00:00", "2025-05-02T00:00:00+00:00",
     "2025-05-02T09:30:00", "2025-05-01"}

DateTimeOfIso(s) ==
    CASE s = "2025-05-01T12:00:00+00:00" -> DateTime(2025, 5, 1, 43200, "+00:00")
      [] s = "2025-05-02T00:00:00+00:00" -> DateTime(2025, 5, 2, 0, "+00:00")
      [] s = "2025-05-02T09:30:00" -> DateTime(2025, 5, 2, 34200, "naive")
      [] s = "2025-05-01" -> DateTime(2025, 5, 1, 0, "naive")
      [] OTHER -> NoDateTime

\* datetime.fromisoformat(val.replace("Z", "+00:00")): [ok, val, err]
PyFromIso(val) ==
    CASE val.t = "str" /\ ReplaceZ(val.v) \in IsoTexts ->
            [ok |-> TRUE, val |-> DateTimeOfIso(ReplaceZ(val.v)), err |-> ""]
      [] val.t = "str" ->
            [ok |-> FALSE, val |-> NoDateTime,
             err |-> "Invalid isoformat string: " \o Repr(ReplaceZ(val.v))]
      [] val.t = "float" ->
            [ok |-> FALSE, val |-> NoDateTime,
             err |-> "'float' object has no attribute 'replace'"]
      [] OTHER ->
            [ok |-> FALSE, val |-> NoDateTime,
             err |-> "'NoneType' object has no attribute 'replace'"]

\* [s.value for s in TransactionStatus]
TransactionStatus == {"pending", "completed", "failed"}

(***************************************************************************)
(* The two validators.  A verdict is [raised, valid, error]: raised is     *)
(* TRUE when the exception leaves the function instead of being returned.  *)
(***************************************************************************)
Verdict(valid, error) == [raised |-> FALSE, valid |-> valid, error |-> error]
Raised(error) == [raised |-> TRUE, valid |-> FALSE, error |-> error]

\* the try block with the status checked before amount and timestamp
RowTryParseStatusFirst(row) ==
    IF ~(row["status"].t = "str" /\ row["status"].v \in TransactionStatus)
    THEN Verdict(FALSE, "Invalid status: " \o PyStr(row["status"]))
    ELSE IF ~PyFloat(row["amount"]).ok
    THEN Verdict(FALSE, PyFloat(row["amount"]).err)
    ELSE IF ~PyFromIso(row["timestamp"]).ok
    THEN Verdict(FALSE, PyFromIso(row["timestamp"]).err)
    ELSE Verdict(TRUE, "")

\* the try block of validate_row
RowTryParse(row) ==
    IF ~PyFloat(row["amount"]).ok
    THEN Verdict(FALSE, PyFloat(row["amount"]).err)
    ELSE IF ~PyFromIso(row["timestamp"]).ok
    THEN Verdict(FALSE, PyFromIso(row["timestamp"]).err)
    ELSE IF ~(row["status"].t = "str" /\ row["status"].v \in TransactionStatus)
    THEN Verdict(FALSE, "Invalid status: " \o PyStr(row["status"]))
    ELSE Verdict(TRUE, "")

\* csv_importer.validate_row: a field is missing when absent or falsy
RowMissing(row) ==
    {i \in 1..Len(required_fields) :
        ~Has(row, required_fields[i]) \/ ~Truthy(row[required_fields[i]])}

Min(S) == CHOOSE x \in S : \A y \in S : x <= y

validate_row(row) ==
    IF RowMissing(row) # {}
    THEN Verdict(FALSE, "Missing field: " \o required_fields[Min(RowMissing(row))])
    ELSE RowTryParse(row)

\* queue_consumer.validate_message: a field is missing only when absent
MessageMissing(row) ==
    {i \in 1..Len(required_fields) : ~Has(row, required_fields[i])}

\* the try block of validate_message
MessageTryParse(data) ==
    IF ~PyFloat(data["amount"]).ok
    THEN Verdict(FALSE, PyFloat(data["amount"]).err)
    ELSE IF ~PyFromIso(data["timestamp"]).ok
    THEN Verdict(FALSE, PyFromIso(data["timestamp"]).err)
    ELSE IF ~(data["status"].t = "str" /\ data["status"].v \in TransactionStatus)
    THEN Verdict(FALSE, "Invalid status: " \o PyStr(data["status"]))
    ELSE Verdict(TRUE, "")

\* json.loads gives a dict, a list, a str, a number or None; data is
\* [kind, rec], rec being the dict when kind = "dict"
validate_message(data) ==
    CASE data.kind = "dict" ->
            IF MessageMissing(data.rec) # {}
            THEN Verdict(FALSE,
                    "Missing field: " \o required_fields[Min(MessageMissing(data.rec))])
            ELSE MessageTryParse(data.rec)
      [] data.kind \in {"list", "str"} ->
            \* `field not in data` is True for [1, 2] and for "abc"
            Verdict(FALSE, "Missing field: " \o required_fields[1])
      [] data.kind = "int" -> Raised("argument of type 'int' is not iterable")
      [] OTHER -> Raised("argument of type 'NoneType' is not iterable")

(***************************************************************************)
(* Inputs: the rows of the CSV files and the bodies of the queue messages  *)
(***************************************************************************)
Record(id, sender, amount, ts, status) ==
    [f \in FieldNames |->
        CASE f = "transaction_id" -> id
          [] f = "sender_id" -> sender
          [] f = "receiver_id" -> Str("user2")
          [] f = "amount" -> amount
          [] f = "currency" -> Str("USD")
          [] f = "timestamp" -> ts
          [] OTHER -> status]

Ts1 == Str("2025-05-01T12:00:00Z")
Ts2 == Str("2025-05-02T09:30:00")

TxA == Record(Str("tx1"), Str("user1"), Str("100"), Ts1, Str("completed"))
TxA2 == Record(Str("tx1"), Str("user1"), Str("20000"), Ts2, Str("pending"))
TxB == Record(Str("tx2"), Str("user1"), Str("250.00"), Ts1, Str("failed"))
TxGhost == Record(Str("tx3"), Str("ghost"), Str("100"), Ts1, Str("completed"))
TxBadAmount == Record(Str("tx4"), Str("user1"), Str("not_a_number"), Ts1, Str("completed"))
TxEmptyId == Record(Str(""), Str("user1"), Str("100"), Ts1, Str("completed"))

\* the rows the CSV reader yields and the dicts the queue messages carry
CsvRows == {TxA, TxA2, TxB, TxGhost, TxBadAmount}
MessageRecords == {TxA, TxA2, TxGhost, TxBadAmount, TxEmptyId}

NoRecord == [f \in FieldNames |-> Absent]

\* A message body is [kind, rec]: the JSON text of an object (rec its
\* members), of another JSON value, text that is not JSON, or bytes that are
\* not UTF-8.
Body(kind, rec) == [kind |-> kind, rec |-> rec]
NoBody == Body("none", NoRecord)

Bodies ==
    {Body("object", r) : r \in MessageRecords}
        \cup {Body(k, NoRecord) : k \in {"list", "int", "notjson", "badbytes"}}

\* json.loads(body): [ok, data, err]
JsonLoads(body) ==
    CASE body.kind = "object" ->
            [ok |-> TRUE, data |-> [kind |-> "dict", rec |-> body.rec], err |-> ""]
      [] body.kind \in {"list", "int", "str", "null"} ->
            [ok |-> TRUE, data |-> [kind |-> body.kind, rec |-> NoRecord], err |-> ""]
      [] body.kind = "notjson" ->
            [ok |-> FALSE, data |-> [kind |-> "none", rec |-> NoRecord],
             err |-> "Expecting value: line 1 column 1 (char 0)"]
      [] OTHER ->
            [ok |-> FALSE, data |-> [kind |-> "none", rec |-> NoRecord],
             err |-> "'utf-8' codec can't decode byte 0xff in position 0: invalid start byte"]

\* body.decode() succeeds unless the bytes are not UTF-8
Decodes(body) == body.kind # "badbytes"

(***************************************************************************)
(* The store: tables of models.py under PostgreSQL (READ COMMITTED)        *)
(***************************************************************************)
VARIABLES
    users,      \* users table: id -> [name, deleted]
    currency,   \* currency table: code -> [name, deleted]
    ledger,     \* committed rows of transactions, in insertion order
    rejected,   \* committed rows of rejected_records, in id order
    imp,        \* state of each import_csv run
    con,        \* state of each queue consumer
    nops,       \* import runs and callbacks begun
    ev,         \* what the last step did to an input: its outcome and logs
    vrec,       \* validators: the raw record under validation
    vres,       \* validators: the verdicts computed
    rep         \* the last report or CRUD request and its response

vars == <<users, currency, ledger, rejected, imp, con, nops, ev, vrec, vres, rep>>

Importers == {"i1", "i2"}
Consumers == {"c1", "c2"}

\* bounds of the model
MaxRows == 2
MaxOps == 2

SUSPICIOUS_AMOUNT == 10000

\* Transaction(id=..., sender_id=..., ..., status=TransactionStatus(...))
Transaction(row) ==
    [id |-> PyStr(row["transaction_id"]),
     sender_id |-> PyStr(row["sender_id"]),
     receiver_id |-> PyStr(row["receiver_id"]),
     amount |-> PyFloat(row["amount"]).val,
     currency |-> PyStr(row["currency"]),
     timestamp |-> PyFromIso(row["timestamp"]).val,
     status |-> PyStr(row["status"])]

\* RejectedRecord(reason=..., payload=..., source=...); the payload is the
\* text str(row) or body.decode() of the input, kept as [text, of]
RejectedRecord(reason, payload, source) ==
    [reason |-> reason, payload |-> payload, source |-> source]

RowPayload(row) == [text |-> "str(row)", of |-> Body("row", row)]
BodyPayload(body) == [text |-> "body.decode()", of |-> body]

Ids(rows) == {rows[k].id : k \in 1..Len(rows)}

\* rows of transactions written by other open sessions and not yet committed
HeldBy(i) == Ids(imp[i].flushed.tx)
HeldByOthers(p) == UNION {HeldBy(i) : i \in Importers \ {p}}

\* the INSERT on a table whose id column has no unique index
InsertWithoutPrimaryKey(p, tx) ==
    IF tx.sender_id \notin DOMAIN users
            \/ tx.receiver_id \notin DOMAIN users
            \/ tx.currency \notin DOMAIN currency
    THEN "ForeignKeyViolation"
    ELSE "ok"

\* INSERT INTO transactions by session p: the primary key first (waiting for
\* an uncommitted row with the same key), then the foreign keys
InsertTransaction(p, tx) ==
    IF tx.id \in HeldByOthers(p) THEN "blocked"
    ELSE IF tx.id \in Ids(ledger) THEN "UniqueViolation"
    ELSE IF tx.sender_id \notin DOMAIN users
            \/ tx.receiver_id \notin DOMAIN users
            \/ tx.currency \notin DOMAIN currency
    THEN "ForeignKeyViolation"
    ELSE "ok"

(***************************************************************************)
(* Outcome of a step for the input it handled: who, the source, the input, *)
(* the outcome (Accepted, Duplicate, Quarantined, or Raised when an        *)
(* exception leaves the ingester), the reason logged and whether the       *)
(* "Suspicious transaction" warning was logged.                            *)
(***************************************************************************)
Event(who, src, input, out, reason, susp) ==
    [who |-> who, src |-> src, input |-> input, out |-> out, reason |-> reason,
     susp |-> susp]
NoEvent == Event("", "", NoBody, "", "", FALSE)

(***************************************************************************)
(* csv_importer: one Session for the whole file, committed at end of input *)
(***************************************************************************)
NoObjects == [tx |-> <<>>, rej |-> <<>>]

ImporterIdle ==
    [pc |-> "idle", row |-> NoRecord, nread |-> 0, nout |-> 0,
     new |-> NoObjects, flushed |-> NoObjects, err |-> ""]

\* the INSERT of the session's pending Transaction (at most one: every
\* session.get flushes first)
NewTxResult(i) ==
    IF imp[i].new.tx = <<>> THEN "ok" ELSE InsertTransaction(i, imp[i].new.tx[1])

\* a flush that forgets what the session had written before
FlushedPendingOnly(st) == [tx |-> st.new.tx, rej |-> st.new.rej]

\* session.flush(): pending objects are written inside the open transaction
Flushed(st) ==
    [tx |-> st.flushed.tx \o st.new.tx, rej |-> st.flushed.rej \o st.new.rej]

\* an error that leaves behind what the session had flushed before it
ImportFailsKeepingFlushed(i, st, row, e) ==
    /\ imp' = [imp EXCEPT ![i] = [st EXCEPT !.pc = "failed", !.err = e,
                    !.row = NoRecord, !.new = NoObjects, !.flushed = NoObjects]]
    /\ ev' = Event(i, "csv", Body("row", row), "Raised", e, FALSE)
    /\ ledger' = ledger \o st.flushed.tx
    /\ rejected' = rejected \o st.flushed.rej

\* an exception leaves import_csv: the Session is closed, which rolls back,
\* and main prints the error and exits with status 1
ImportFails(i, st, row, e) ==
    /\ imp' = [imp EXCEPT ![i] = [st EXCEPT !.pc = "failed", !.err = e,
                    !.row = NoRecord, !.new = NoObjects, !.flushed = NoObjects]]
    /\ ev' = Event(i, "csv", Body("row", row), "Raised", e, FALSE)
    /\ UNCHANGED <<ledger, rejected>>

\* main: open the file and the Session
BeginImport(i) ==
    /\ imp[i].pc = "idle"
    /\ nops < MaxOps
    /\ nops' = nops + 1
    /\ imp' = [imp EXCEPT ![i].pc = "running"]
    /\ ev' = NoEvent
    /\ UNCHANGED <<users, currency, ledger, rejected, con, vrec, vres, rep>>

\* float(row["amount"]) > SUSPICIOUS_AMOUNT
Suspicious(row) ==
    LET a == PyFloat(row["amount"]).val
    IN  (a.k = "fin" /\ a.n > SUSPICIOUS_AMOUNT) \/ a.k = "inf"

\* a lookup that misses the rows the session itself has flushed
SessionSeesCommittedOnly(st, id) == id \in Ids(ledger)

\* session.get(Transaction, id) of a session in state st: the rows this
\* session's transaction sees are the committed ones and its own
SessionSees(st, id) == id \in Ids(ledger) \cup Ids(st.flushed.tx)

\* a valid row above the threshold quarantined instead of stored
GetAndAddBelowThreshold(i, st, row) ==
    IF NewTxResult(i) # "ok"
    THEN ImportFails(i, st, row, NewTxResult(i))
    ELSE /\ LET st2 == [st EXCEPT !.flushed = Flushed(st), !.new = NoObjects,
                                  !.pc = "running", !.row = NoRecord,
                                  !.nout = @ + 1]
                tx == Transaction(row)
            IN  IF SessionSees(st2, tx.id)
                THEN /\ imp' = [imp EXCEPT ![i] = st2]
                     /\ ev' = Event(i, "csv", Body("row", row), "Duplicate", "", FALSE)
                ELSE IF Suspicious(row)
                THEN /\ imp' = [imp EXCEPT ![i] = [st2 EXCEPT !.new.rej =
                            <<RejectedRecord("Suspicious", RowPayload(row), "csv")>>]]
                     /\ ev' = Event(i, "csv", Body("row", row), "Quarantined",
                                    "Suspicious", TRUE)
                ELSE /\ imp' = [imp EXCEPT ![i] = [st2 EXCEPT !.new.tx = <<tx>>]]
                     /\ ev' = Event(i, "csv", Body("row", row), "Accepted", "", FALSE)
         /\ UNCHANGED <<ledger, rejected>>

\* lines 70-85 for a valid row: session.get autoflushes and reads the row by
\* primary key; a row not found is added to the session
GetAndAdd(i, st, row) ==
    IF NewTxResult(i) # "ok"
    THEN ImportFails(i, st, row, NewTxResult(i))
    ELSE /\ LET st2 == [st EXCEPT !.flushed = Flushed(st), !.new = NoObjects,
                                  !.pc = "running", !.row = NoRecord,
                                  !.nout = @ + 1]
                tx == Transaction(row)
            IN  IF SessionSees(st2, tx.id)
                THEN /\ imp' = [imp EXCEPT ![i] = st2]
                     /\ ev' = Event(i, "csv", Body("row", row), "Duplicate", "", FALSE)
                ELSE /\ imp' = [imp EXCEPT ![i] = [st2 EXCEPT !.new.tx = <<tx>>]]
                     /\ ev' = Event(i, "csv", Body("row", row), "Accepted", "",
                                    Suspicious(row))
         /\ UNCHANGED <<ledger, rejected>>

\* the loop leaving import_csv at an invalid row instead of going on
ReadRowAborting(i, row) ==
    /\ imp[i].pc = "running"
    /\ imp[i].nread < MaxRows
    /\ LET v == validate_row(row)
           st == [imp[i] EXCEPT !.nread = @ + 1]
       IN  IF ~v.valid
           THEN ImportFails(i, st, row, v.error)
           ELSE IF NewTxResult(i) = "blocked"
           THEN /\ imp' = [imp EXCEPT ![i] = [st EXCEPT !.pc = "get", !.row = row]]
                /\ ev' = NoEvent
                /\ UNCHANGED <<ledger, rejected>>
           ELSE GetAndAdd(i, st, row)
    /\ UNCHANGED <<users, currency, con, nops, vrec, vres, rep>>

\* for row in reader: validate_row, the RejectedRecord of an invalid row, and
\* session.get for a valid one (pc "get" while its flush waits for a lock)
ReadRow(i, row) ==
    /\ imp[i].pc = "running"
    /\ imp[i].nread < MaxRows
    /\ LET v == validate_row(row)
           st == [imp[i] EXCEPT !.nread = @ + 1]
       IN  IF ~v.valid
           THEN /\ imp' = [imp EXCEPT ![i] = [st EXCEPT
                        !.nout = @ + 1,
                        !.new.rej = Append(@,
                            RejectedRecord(v.error, RowPayload(row), "csv"))]]
                /\ ev' = Event(i, "csv", Body("row", row), "Quarantined", v.error, FALSE)
                /\ UNCHANGED <<ledger, rejected>>
           ELSE IF NewTxResult(i) = "blocked"
           THEN /\ imp' = [imp EXCEPT ![i] = [st EXCEPT !.pc = "get", !.row = row]]
                /\ ev' = NoEvent
                /\ UNCHANGED <<ledger, rejected>>
           ELSE GetAndAdd(i, st, row)
    /\ UNCHANGED <<users, currency, con, nops, vrec, vres, rep>>

\* session.get resumes once the lock it waited for is released
SessionGet(i) ==
    /\ imp[i].pc = "get"
    /\ NewTxResult(i) # "blocked"
    /\ GetAndAdd(i, imp[i], imp[i].row)
    /\ UNCHANGED <<users, currency, con, nops, vrec, vres, rep>>

\* session.commit(): flush, then COMMIT
FlushAndCommit(i) ==
    IF NewTxResult(i) # "ok"
    THEN ImportFails(i, imp[i], NoRecord, NewTxResult(i))
    ELSE /\ ledger' = ledger \o Flushed(imp[i]).tx
         /\ rejected' = rejected \o Flushed(imp[i]).rej
         /\ imp' = [imp EXCEPT ![i] = [@ EXCEPT !.pc = "done",
                        !.new = NoObjects, !.flushed = NoObjects]]
         /\ ev' = NoEvent

\* the reader is exhausted: session.commit() (pc "commit" while its flush
\* waits for a lock)
EndOfInput(i) ==
    /\ imp[i].pc = "running"
    /\ IF NewTxResult(i) = "blocked"
       THEN /\ imp' = [imp EXCEPT ![i].pc = "commit"]
            /\ ev' = NoEvent
            /\ UNCHANGED <<ledger, rejected>>
       ELSE FlushAndCommit(i)
    /\ UNCHANGED <<users, currency, con, nops, vrec, vres, rep>>

\* session.commit() resumes once the lock it waited for is released
Commit(i) ==
    /\ imp[i].pc = "commit"
    /\ NewTxResult(i) # "blocked"
    /\ FlushAndCommit(i)
    /\ UNCHANGED <<users, currency, con, nops, vrec, vres, rep>>

\* two sessions each waiting for a row the other wrote: PostgreSQL aborts
\* one of them with a deadlock error
Waiting(i) == imp[i].pc \in {"get", "commit"} /\ NewTxResult(i) = "blocked"

Deadlock(i) ==
    /\ Waiting(i)
    /\ \E j \in Importers \ {i} :
          /\ Waiting(j)
          /\ imp[i].new.tx[1].id \in HeldBy(j)
          /\ imp[j].new.tx[1].id \in HeldBy(i)
    /\ ImportFails(i, imp[i], imp[i].row, "DeadlockDetected")
    /\ UNCHANGED <<users, currency, con, nops, vrec, vres, rep>>

(***************************************************************************)
(* queue_consumer: callback, one Session per insert                        *)
(***************************************************************************)
NoTransaction == Transaction(NoRecord)
ConsumerIdle == [pc |-> "idle", body |-> NoBody, tx |-> NoTransaction]

\* save_rejected_record(reason, body.decode(), source="queue") as callback
\* calls it: body.decode() is evaluated first and may raise, and then the
\* exception leaves callback and ends start_consuming
SaveRejected(c, body, reason) ==
    IF Decodes(body)
    THEN /\ rejected' = Append(rejected,
                RejectedRecord(reason, BodyPayload(body), "queue"))
         /\ con' = [con EXCEPT ![c] = ConsumerIdle]
         /\ ev' = Event(c, "queue", body, "Quarantined", reason, FALSE)
    ELSE /\ rejected' = rejected
         /\ con' = [con EXCEPT ![c] = [ConsumerIdle EXCEPT !.pc = "crashed"]]
         /\ ev' = Event(c, "queue", body, "Raised", JsonLoads(body).err, FALSE)

\* callback up to the session.get of insert_transaction
Callback(c, body) ==
    /\ con[c].pc = "idle"
    /\ nops < MaxOps
    /\ nops' = nops + 1
    /\ LET j == JsonLoads(body)
           v == validate_message(j.data)
           tx == Transaction(j.data.rec)
       IN  IF ~j.ok THEN SaveRejected(c, body, j.err)
           ELSE IF v.raised \/ ~v.valid THEN SaveRejected(c, body, v.error)
           ELSE IF tx.id \in Ids(ledger)
           THEN /\ con' = [con EXCEPT ![c] = ConsumerIdle]
                /\ ev' = Event(c, "queue", body, "Duplicate", "", FALSE)
                /\ rejected' = rejected
           ELSE /\ con' = [con EXCEPT ![c] =
                            [pc |-> "insert", body |-> body, tx |-> tx]]
                /\ ev' = NoEvent
                /\ rejected' = rejected
    /\ UNCHANGED <<users, currency, ledger, imp, vrec, vres, rep>>

\* insert_transaction: session.add(tx); session.commit(), and the except
\* branch of callback when the commit raises
InsertCommit(c) ==
    /\ con[c].pc = "insert"
    /\ InsertTransaction(c, con[c].tx) # "blocked"
    /\ IF InsertTransaction(c, con[c].tx) = "ok"
       THEN /\ ledger' = Append(ledger, con[c].tx)
            /\ rejected' = rejected
            /\ con' = [con EXCEPT ![c] = ConsumerIdle]
            /\ ev' = Event(c, "queue", con[c].body, "Accepted", "", FALSE)
       ELSE /\ ledger' = ledger
            /\ SaveRejected(c, con[c].body, InsertTransaction(c, con[c].tx))
    /\ UNCHANGED <<users, currency, imp, nops, vrec, vres, rep>>

(***************************************************************************)
(* The pipeline: importers and consumers over one store                    *)
(***************************************************************************)
\* seed.py: the users and currencies the store starts with
SeedUsers ==
    [u \in {"user1", "user2", "user3"} |->
        [name |-> CASE u = "user1" -> "Alice" [] u = "user2" -> "Bob" [] OTHER -> "Charlie",
         deleted |-> FALSE]]
SeedCurrencies ==
    [c \in {"USD", "EUR", "GBP"} |->
        [name |-> CASE c = "USD" -> "US Dollar" [] c = "EUR" -> "Euro"
                    [] OTHER -> "British Pound",
         deleted |-> FALSE]]

\* a request to the reporting functions or to the CRUD endpoints and its
\* response: the function, its arguments (key is the user id or currency
\* code, db whether a session is passed, patched whether reporting.Session
\* is replaced by a factory of bound sessions as the tests do), where it
\* stands (pc), the rows of the first statement, the value returned, the
\* HTTP status and the exception raised
Request(kind, key, name, start_date, end_date, db, patched, pc, sent, result, status, error) ==
    [kind |-> kind, key |-> key, name |-> name, start_date |-> start_date,
     end_date |-> end_date, db |-> db, patched |-> patched, pc |-> pc,
     sent |-> sent, result |-> result, status |-> status, error |-> error]

Date(y, m, d) == [y |-> y, m |-> m, d |-> d]
\* start_date=None, end_date=None
NoDate == Date(0, 0, 0)

NoRequest ==
    Request("", "", "", NoDate, NoDate, FALSE, FALSE, "", {}, <<>>, 0, "")

NoVerdict == [raised |-> FALSE, valid |-> FALSE, error |-> "not run"]

Init ==
    /\ users = SeedUsers
    /\ currency = SeedCurrencies
    /\ ledger = <<>>
    /\ rejected = <<>>
    /\ imp = [i \in Importers |-> ImporterIdle]
    /\ con = [c \in Consumers |-> ConsumerIdle]
    /\ nops = 0
    /\ ev = NoEvent
    /\ vrec = NoRecord
    /\ vres = [row |-> NoVerdict, msg |-> NoVerdict]
    /\ rep = NoRequest

Next ==
    \/ \E i \in Importers : BeginImport(i)
    \/ \E i \in Importers : \E row \in CsvRows : ReadRow(i, row)
    \/ \E i \in Importers : SessionGet(i)
    \/ \E i \in Importers : EndOfInput(i)
    \/ \E i \in Importers : Commit(i)
    \/ \E i \in Importers : Deadlock(i)
    \/ \E c \in Consumers : \E body \in Bodies : Callback(c, body)
    \/ \E c \in Consumers : InsertCommit(c)

Spec == Init /\ [][Next]_vars

(***************************************************************************)
(* The ingesters run one after the other: an import run or a callback      *)
(* begins and proceeds only while no other one is under way.               *)
(***************************************************************************)
ImportUnderWay(i) == imp[i].pc \in {"running", "get", "commit"}
CallbackUnderWay(c) == con[c].pc = "insert"

Alone(p) ==
    /\ \A i \in Importers \ {p} : ~ImportUnderWay(i)
    /\ \A c \in Consumers \ {p} : ~CallbackUnderWay(c)

NextSeq ==
    \/ \E i \in Importers : Alone(i) /\ BeginImport(i)
    \/ \E i \in Importers : \E row \in CsvRows : Alone(i) /\ ReadRow(i, row)
    \/ \E i \in Importers : Alone(i) /\ EndOfInput(i)
    \/ \E c \in Consumers : \E body \in Bodies : Alone(c) /\ Callback(c, body)
    \/ \E c \in Consumers : Alone(c) /\ InsertCommit(c)

SpecSeq == Init /\ [][NextSeq]_vars

(***************************************************************************)
(* The validators alone: validate_row and validate_message applied to one  *)
(* raw record, every field of which is absent, empty, well-formed or       *)
(* malformed.                                                              *)
(***************************************************************************)
FieldValues(f) ==
    CASE f = "transaction_id" -> {Absent, Str(""), Str("tx1")}
      [] f = "sender_id" -> {Absent, Str(""), None, Str("user1")}
      [] f = "receiver_id" -> {Absent, Str(""), Str("user2")}
      [] f = "amount" ->
            {Absent, Str(""), Str("100"), Str("not_a_number"), Str("nan"),
             Float("250.0")}
      [] f = "currency" -> {Absent, Str(""), Str("USD")}
      [] f = "timestamp" ->
            {Absent, Str(""), Str("2025-05-01T12:00:00Z"), Str("2025-05-02T09:30:00"),
             Str("bad_time")}
      [] OTHER -> {Absent, Str(""), Str("completed"), Str("bad_status")}

ValidatorRecords ==
    { [f \in FieldNames |->
            CASE f = "transaction_id" -> id
              [] f = "sender_id" -> sender
              [] f = "receiver_id" -> receiver
              [] f = "amount" -> amount
              [] f = "currency" -> cur
              [] f = "timestamp" -> ts
              [] OTHER -> status] :
        id \in FieldValues("transaction_id"), sender \in FieldValues("sender_id"),
        receiver \in FieldValues("receiver_id"), amount \in FieldValues("amount"),
        cur \in FieldValues("currency"), ts \in FieldValues("timestamp"),
        status \in FieldValues("status") }

InitV ==
    /\ users = SeedUsers
    /\ currency = SeedCurrencies
    /\ ledger = <<>>
    /\ rejected = <<>>
    /\ imp = [i \in Importers |-> ImporterIdle]
    /\ con = [c \in Consumers |-> ConsumerIdle]
    /\ nops = 0
    /\ ev = NoEvent
    /\ vrec \in ValidatorRecords
    /\ vres = [row |-> NoVerdict, msg |-> NoVerdict]
    /\ rep = NoRequest

ValidateRow ==
    /\ vres.row = NoVerdict
    /\ vres' = [vres EXCEPT !.row = validate_row(vrec)]
    /\ UNCHANGED <<users, currency, ledger, rejected, imp, con, nops, ev, vrec, rep>>

ValidateMessage ==
    /\ vres.msg = NoVerdict
    /\ vres' = [vres EXCEPT !.msg = validate_message([kind |-> "dict", rec |-> vrec])]
    /\ UNCHANGED <<users, currency, ledger, rejected, imp, con, nops, ev, vrec, rep>>

NextV == ValidateRow \/ ValidateMessage

SpecV == InitV /\ [][NextV]_vars

(***************************************************************************)
(* reporting.py: get_payments_by_user and get_daily_totals.  The timestamp *)
(* column is a DateTime without time zone: what is stored and compared is  *)
(* the wall-clock time [y, m, d, s] (the store runs in UTC), and a date    *)
(* compared with it stands for its midnight.                               *)
(***************************************************************************)
\* the order of timestamps: the day, then the second of the day
TsKey(ts) == <<(ts.y * 12 + ts.m) * 31 + ts.d, ts.s>>
DateKey(d) == <<(d.y * 12 + d.m) * 31 + d.d, 0>>
Lt(a, b) == a[1] < b[1] \/ (a[1] = b[1] /\ a[2] < b[2])
Le(a, b) == a = b \/ Lt(a, b)

\* func.date(Transaction.timestamp)
FuncDate(ts) == Date(ts.y, ts.m, ts.d)

\* "%02d" % n and "%04d" % n
Pad2(n) == IF n < 10 THEN "0" \o ToString(n) ELSE ToString(n)
Pad4(n) ==
    IF n < 10 THEN "000" \o ToString(n)
    ELSE IF n < 100 THEN "00" \o ToString(n)
    ELSE IF n < 1000 THEN "0" \o ToString(n)
    ELSE ToString(n)

\* day.isoformat() of a date
DateIso(d) == Pad4(d.y) \o "-" \o Pad2(d.m) \o "-" \o Pad2(d.d)

\* tx.timestamp.isoformat() of a stored timestamp
IsoFormat(ts) ==
    DateIso(FuncDate(ts)) \o "T" \o Pad2(ts.s \div 3600) \o ":"
        \o Pad2((ts.s % 3600) \div 60) \o ":" \o Pad2(ts.s % 60)

\* a statement that also reads what open transactions have written
VisibleUncommitted == ledger \o imp["i1"].flushed.tx \o imp["i2"].flushed.tx

\* the rows of transactions a statement of another session sees under READ
\* COMMITTED: the committed ones
Visible == ledger

\* if start_date: timestamp >= start_date; if end_date: timestamp < end_date,
\* or <= end_date in the branch of get_payments_by_user that is given a db
InRange(ts, start_date, end_date, inclusive) ==
    /\ start_date # NoDate => Le(DateKey(start_date), TsKey(ts))
    /\ end_date # NoDate =>
            IF inclusive THEN Le(TsKey(ts), DateKey(end_date))
            ELSE Lt(TsKey(ts), DateKey(end_date))

\* the filter of get_payments_by_user on rows L: indices of the rows kept
PaymentsFilter(L, user_id, start_date, end_date, db) ==
    {k \in 1..Len(L) :
        /\ L[k].sender_id = user_id \/ L[k].receiver_id = user_id
        /\ InRange(L[k].timestamp, start_date, end_date, db)}

\* order_by(Transaction.timestamp): every order of the rows K the sort may
\* give (rows of equal timestamp come in any order)
OrderByTimestamp(L, K) ==
    {q \in [1..Cardinality(K) -> K] :
        /\ \A a, b \in 1..Cardinality(K) : a # b => q[a] # q[b]
        /\ \A a, b \in 1..Cardinality(K) :
                a < b => Le(TsKey(L[q[a]].timestamp), TsKey(L[q[b]].timestamp))}

\* the dict appended to results for a row
PaymentDict(tx) ==
    [id |-> tx.id, sender_id |-> tx.sender_id, receiver_id |-> tx.receiver_id,
     amount |-> tx.amount, currency |-> tx.currency,
     timestamp |-> IsoFormat(tx.timestamp), status |-> tx.status]

\* the lists get_payments_by_user may return on rows L
get_payments_by_user(L, user_id, start_date, end_date, db) ==
    {[k \in 1..Len(q) |-> PaymentDict(L[q[k]])] :
        q \in OrderByTimestamp(L, PaymentsFilter(L, user_id, start_date, end_date, db))}

\* a + b of two floats
FloatAdd(a, b) ==
    IF a.k = "nan" \/ b.k = "nan" THEN NaN
    ELSE IF a.k = "inf" \/ b.k = "inf" THEN Inf
    ELSE Fin(a.n + b.n)

\* func.sum(Transaction.amount) over the rows K of L
RECURSIVE FuncSum(_, _)
FuncSum(L, K) ==
    IF K = {} THEN Fin(0)
    ELSE LET k == CHOOSE x \in K : TRUE
         IN  FloatAdd(L[k].amount, FuncSum(L, K \ {k}))

\* an aggregate that counts completed transactions only
DailyFilterCompletedOnly(L, user_id, role, start_date, end_date) ==
    {k \in 1..Len(L) :
        /\ L[k][role] = user_id
        /\ L[k].status = "completed"
        /\ InRange(L[k].timestamp, start_date, end_date, FALSE)}

\* the filter of one aggregate of get_daily_totals: role is "sender_id" or
\* "receiver_id"; both branches filter timestamp < end_date
DailyFilter(L, user_id, role, start_date, end_date) ==
    {k \in 1..Len(L) :
        /\ L[k][role] = user_id
        /\ InRange(L[k].timestamp, start_date, end_date, FALSE)}

\* group_by(func.date(Transaction.timestamp)): one row [day, total] per day
GroupByDay(L, K) ==
    {[day |-> d, total |-> FuncSum(L, {k \in K : FuncDate(L[k].timestamp) = d})] :
        d \in {FuncDate(L[k].timestamp) : k \in K}}

\* float(row.total_sent or 0)
FloatOrZero(x) == IF x.k = "fin" /\ x.n = 0 THEN Fin(0) ELSE x

\* totals[day].get("total_sent", 0.0) after the two merge loops
TotalOf(rows, day) ==
    IF \E r \in rows : r.day = day
    THEN FloatOrZero((CHOOSE r \in rows : r.day = day).total)
    ELSE Fin(0)

\* sorted(totals.keys())
SortedDays(S) ==
    CHOOSE q \in [1..Cardinality(S) -> S] :
        \A a, b \in 1..Cardinality(S) : a < b => Lt(DateKey(q[a]), DateKey(q[b]))

\* the output list built from the rows of the two aggregates
MergeTotals(sent, received) ==
    LET days == SortedDays({r.day : r \in sent \cup received})
    IN  [k \in 1..Len(days) |->
            [day |-> DateIso(days[k]),
             total_sent |-> TotalOf(sent, days[k]),
             total_received |-> TotalOf(received, days[k])]]

\* the ways the functions are called: with a db session (api.py,
\* report_cli.py, scheduled_reports.py), or without one, reporting.Session
\* being sqlalchemy's Session, which Session() leaves without an engine, or
\* the factory the tests put in its place
CallForms ==
    {[db |-> TRUE, patched |-> FALSE], [db |-> FALSE, patched |-> FALSE],
     [db |-> FALSE, patched |-> TRUE]}

\* `with Session() as session` gives a session without a bind: its first
\* query raises
Unbound(form) == ~form.db /\ ~form.patched

PaymentsByUser(user_id, start_date, end_date, form) ==
    /\ rep.pc # "sent"
    /\ nops < MaxOps
    /\ nops' = nops + 1
    /\ IF Unbound(form)
       THEN rep' = Request("payments", user_id, "", start_date, end_date, form.db,
                           form.patched, "raised", {}, <<>>, 0, "UnboundExecutionError")
       ELSE \E result \in get_payments_by_user(Visible, user_id, start_date,
                                               end_date, form.db) :
                rep' = Request("payments", user_id, "", start_date, end_date,
                               form.db, form.patched, "done", {}, result, 0, "")
    /\ ev' = NoEvent
    /\ UNCHANGED <<users, currency, ledger, rejected, imp, con, vrec, vres>>

\* get_daily_totals up to its first statement, the sent totals
DailyTotalsSent(user_id, start_date, end_date, form) ==
    /\ rep.pc # "sent"
    /\ nops < MaxOps
    /\ nops' = nops + 1
    /\ IF Unbound(form)
       THEN rep' = Request("daily", user_id, "", start_date, end_date, form.db,
                           form.patched, "raised", {}, <<>>, 0, "UnboundExecutionError")
       ELSE rep' = Request("daily", user_id, "", start_date, end_date, form.db,
                           form.patched, "sent",
                           GroupByDay(Visible, DailyFilter(Visible, user_id,
                                "sender_id", start_date, end_date)),
                           <<>>, 0, "")
    /\ ev' = NoEvent
    /\ UNCHANGED <<users, currency, ledger, rejected, imp, con, vrec, vres>>

\* get_daily_totals from its second statement, the received totals, to the
\* return of the merged output
DailyTotalsReceived ==
    /\ rep.pc = "sent"
    /\ rep' = [rep EXCEPT !.pc = "done",
                !.result = MergeTotals(rep.sent,
                    GroupByDay(Visible, DailyFilter(Visible, rep.key, "receiver_id",
                        rep.start_date, rep.end_date)))]
    /\ ev' = NoEvent
    /\ UNCHANGED <<users, currency, ledger, rejected, imp, con, nops, vrec, vres>>

(***************************************************************************)
(* api.py: list, create, update and soft-delete of users and currencies    *)
(* (the commands of manage_cli.py do the same to the tables)               *)
(***************************************************************************)
Response(kind, key, name, status) ==
    Request(kind, key, name, NoDate, NoDate, TRUE, FALSE, "done", {}, <<>>, status, "")

\* the table with the row [name, deleted = False] added under key
Insert(table, key, name) ==
    [k \in DOMAIN table \cup {key} |->
        IF k = key THEN [name |-> name, deleted |-> FALSE] ELSE table[k]]

\* a soft delete that removes the user's transactions as well
delete_user_cascading(user_id) ==
    /\ rep.pc # "sent"
    /\ nops < MaxOps
    /\ nops' = nops + 1
    /\ IF user_id \notin DOMAIN users \/ users[user_id].deleted
       THEN /\ UNCHANGED <<users, ledger>>
            /\ rep' = Response("delete_user", user_id, "", 404)
       ELSE /\ users' = [users EXCEPT ![user_id].deleted = TRUE]
            /\ ledger' = SelectSeq(ledger,
                    LAMBDA tx : tx.sender_id # user_id /\ tx.receiver_id # user_id)
            /\ rep' = Response("delete_user", user_id, "", 204)
    /\ ev' = NoEvent
    /\ UNCHANGED <<currency, rejected, imp, con, vrec, vres>>

\* a create that takes over a soft-deleted row instead of answering 409
create_user_reviving(user_id, name) ==
    /\ rep.pc # "sent"
    /\ nops < MaxOps
    /\ nops' = nops + 1
    /\ IF user_id \in DOMAIN users /\ ~users[user_id].deleted
       THEN /\ users' = users
            /\ rep' = Response("create_user", user_id, name, 409)
       ELSE /\ users' = Insert(users, user_id, name)
            /\ rep' = Response("create_user", user_id, name, 201)
    /\ ev' = NoEvent
    /\ UNCHANGED <<currency, ledger, rejected, imp, con, vrec, vres>>


create_user(user_id, name) ==
    /\ rep.pc # "sent"
    /\ nops < MaxOps
    /\ nops' = nops + 1
    /\ IF user_id \in DOMAIN users
       THEN /\ users' = users
            /\ rep' = Response("create_user", user_id, name, 409)
       ELSE /\ users' = Insert(users, user_id, name)
            /\ rep' = Response("create_user", user_id, name, 201)
    /\ ev' = NoEvent
    /\ UNCHANGED <<currency, ledger, rejected, imp, con, vrec, vres>>

\* an update that does not look at the deleted flag
update_user_any(user_id, name) ==
    /\ rep.pc # "sent"
    /\ nops < MaxOps
    /\ nops' = nops + 1
    /\ IF user_id \notin DOMAIN users
       THEN /\ users' = users
            /\ rep' = Response("update_user", user_id, name, 404)
       ELSE /\ users' = [users EXCEPT ![user_id].name = name]
            /\ rep' = Response("update_user", user_id, name, 200)
    /\ ev' = NoEvent
    /\ UNCHANGED <<currency, ledger, rejected, imp, con, vrec, vres>>


update_user(user_id, name) ==
    /\ rep.pc # "sent"
    /\ nops < MaxOps
    /\ nops' = nops + 1
    /\ IF user_id \notin DOMAIN users \/ users[user_id].deleted
       THEN /\ users' = users
            /\ rep' = Response("update_user", user_id, name, 404)
       ELSE /\ users' = [users EXCEPT ![user_id].name = name]
            /\ rep' = Response("update_user", user_id, name, 200)
    /\ ev' = NoEvent
    /\ UNCHANGED <<currency, ledger, rejected, imp, con, vrec, vres>>

delete_user(user_id) ==
    /\ rep.pc # "sent"
    /\ nops < MaxOps
    /\ nops' = nops + 1
    /\ IF user_id \notin DOMAIN users \/ users[user_id].deleted
       THEN /\ users' = users
            /\ rep' = Response("delete_user", user_id, "", 404)
       ELSE /\ users' = [users EXCEPT ![user_id].deleted = TRUE]
            /\ rep' = Response("delete_user", user_id, "", 204)
    /\ ev' = NoEvent
    /\ UNCHANGED <<currency, ledger, rejected, imp, con, vrec, vres>>

create_currency(code, name) ==
    /\ rep.pc # "sent"
    /\ nops < MaxOps
    /\ nops' = nops + 1
    /\ IF code \in DOMAIN currency
       THEN /\ currency' = currency
            /\ rep' = Response("create_currency", code, name, 409)
       ELSE /\ currency' = Insert(currency, code, name)
            /\ rep' = Response("create_currency", code, name, 201)
    /\ ev' = NoEvent
    /\ UNCHANGED <<users, ledger, rejected, imp, con, vrec, vres>>

update_currency(code, name) ==
    /\ rep.pc # "sent"
    /\ nops < MaxOps
    /\ nops' = nops + 1
    /\ IF code \notin DOMAIN currency \/ currency[code].deleted
       THEN /\ currency' = currency
            /\ rep' = Response("update_currency", code, name, 404)
       ELSE /\ currency' = [currency EXCEPT ![code].name = name]
            /\ rep' = Response("update_currency", code, name, 200)
    /\ ev' = NoEvent
    /\ UNCHANGED <<users, ledger, rejected, imp, con, vrec, vres>>

delete_currency(code) ==
    /\ rep.pc # "sent"
    /\ nops < MaxOps
    /\ nops' = nops + 1
    /\ IF code \notin DOMAIN currency \/ currency[code].deleted
       THEN /\ currency' = currency
            /\ rep' = Response("delete_currency", code, "", 404)
       ELSE /\ currency' = [currency EXCEPT ![code].deleted = TRUE]
            /\ rep' = Response("delete_currency", code, "", 204)
    /\ ev' = NoEvent
    /\ UNCHANGED <<users, ledger, rejected, imp, con, vrec, vres>>

\* query(...).filter(deleted == False).all(): the rows that are not deleted,
\* in whatever order the store returns them; column is "id" or "code"
ActiveRows(table, column) ==
    LET K == {k \in DOMAIN table : ~table[k].deleted}
    IN  {[j \in 1..Cardinality(K) |->
                [c \in {column, "name"} |-> IF c = "name" THEN table[q[j]].name ELSE q[j]]] :
            q \in {p \in [1..Cardinality(K) -> K] :
                        \A a, b \in 1..Cardinality(K) : a # b => p[a] # p[b]}}

list_users ==
    /\ rep.pc # "sent"
    /\ nops < MaxOps
    /\ nops' = nops + 1
    /\ \E result \in ActiveRows(users, "id") :
            rep' = [Response("list_users", "", "", 200) EXCEPT !.result = result]
    /\ ev' = NoEvent
    /\ UNCHANGED <<users, currency, ledger, rejected, imp, con, vrec, vres>>

list_currencies ==
    /\ rep.pc # "sent"
    /\ nops < MaxOps
    /\ nops' = nops + 1
    /\ \E result \in ActiveRows(currency, "code") :
            rep' = [Response("list_currencies", "", "", 200) EXCEPT !.result = result]
    /\ ev' = NoEvent
    /\ UNCHANGED <<users, currency, ledger, rejected, imp, con, vrec, vres>>

(***************************************************************************)
(* The whole system: ingestion, report requests and CRUD requests over one *)
(* store                                                                   *)
(***************************************************************************)
UserIds == {"user1", "ghost"}
CurrencyCodes == {"USD", "JPY"}
Names == {"Renamed"}
QueryUsers == {"user1", "user3"}
QueryDates == {NoDate, Date(2025, 5, 2)}

\* one import run and one consumer next to the requests
NextOps ==
    \/ BeginImport("i1")
    \/ \E row \in CsvRows : ReadRow("i1", row)
    \/ EndOfInput("i1")
    \/ \E body \in Bodies : Callback("c1", body)
    \/ InsertCommit("c1")
    \/ \E u \in QueryUsers : \E s, e \in QueryDates : \E form \in CallForms :
            PaymentsByUser(u, s, e, form)
    \/ \E u \in QueryUsers : \E s, e \in QueryDates : \E form \in CallForms :
            DailyTotalsSent(u, s, e, form)
    \/ DailyTotalsReceived
    \/ \E u \in UserIds : \E n \in Names : create_user(u, n)
    \/ \E u \in UserIds : \E n \in Names : update_user(u, n)
    \/ \E u \in UserIds : delete_user(u)
    \/ \E c \in CurrencyCodes : \E n \in Names : create_currency(c, n)
    \/ \E c \in CurrencyCodes : \E n \in Names : update_currency(c, n)
    \/ \E c \in CurrencyCodes : delete_currency(c)
    \/ list_users
    \/ list_currencies

SpecOps == Init /\ [][NextOps]_vars

(***************************************************************************)
(* The reports alone, over a ledger that ingestion has filled: the rows of *)
(* the reporting tests and two more, one at the midnight that starts a day *)
(* and one between a user and itself                                       *)
(***************************************************************************)
RecordTo(id, sender, receiver, amount, ts, status) ==
    [Record(id, sender, amount, ts, status) EXCEPT !["receiver_id"] = receiver]

ReportRecords ==
    <<TxA,
      RecordTo(Str("tx2"), Str("user2"), Str("user1"), Str("250.00"), Ts2, Str("pending")),
      RecordTo(Str("tx3"), Str("user1"), Str("user2"), Str("20000"),
               Str("2025-05-02T00:00:00Z"), Str("failed")),
      RecordTo(Str("tx4"), Str("user1"), Str("user1"), Str("-5"), Ts1, Str("pending"))>>

\* the ledger after the records numbered in S have been ingested in order
LedgerOf(S) ==
    LET F[k \in 0..Len(ReportRecords)] ==
            IF k = 0 THEN <<>>
            ELSE IF k \in S THEN Append(F[k - 1], Transaction(ReportRecords[k]))
            ELSE F[k - 1]
    IN  F[Len(ReportRecords)]

ReportLedgers == {LedgerOf(S) : S \in SUBSET (1..Len(ReportRecords))}
ReportUsers == {"user1", "user2", "user3", "nonexistent"}
ReportDates == {NoDate, Date(2025, 5, 2), Date(2025, 5, 3)}

InitR ==
    /\ users = SeedUsers
    /\ currency = SeedCurrencies
    /\ ledger \in ReportLedgers
    /\ rejected = <<>>
    /\ imp = [i \in Importers |-> ImporterIdle]
    /\ con = [c \in Consumers |-> ConsumerIdle]
    /\ nops = 0
    /\ ev = NoEvent
    /\ vrec = NoRecord
    /\ vres = [row |-> NoVerdict, msg |-> NoVerdict]
    /\ rep = NoRequest

NextR ==
    \/ \E u \in ReportUsers : \E s, e \in ReportDates : \E form \in CallForms :
            PaymentsByUser(u, s, e, form)
    \/ \E u \in ReportUsers : \E s, e \in ReportDates : \E form \in CallForms :
            DailyTotalsSent(u, s, e, form)
    \/ DailyTotalsReceived

SpecR == InitR /\ [][NextR]_vars

(***************************************************************************)
(* scheduled_reports.py: the monthly reports of every user, written to the *)
(* output directory.  The directory is kept in rep.result as a function    *)
(* from <<user id, start_date>> (the name of the file) to the payments and *)
(* daily totals written (the JSON file; the two CSV files hold the same    *)
(* lists).                                                                 *)
(***************************************************************************)
\* --month values ("" when the option is not given) and the days
\* date.today() may be
TargetMonths == {"", "2025-11", "2025-12", "2026-01"}
Todays == {Date(2025, 12, 31), Date(2026, 1, 1)}

\* datetime.strptime(target_month, "%Y-%m").date()
StrpTime(target_month) ==
    CASE target_month = "2025-11" -> Date(2025, 11, 1)
      [] target_month = "2025-12" -> Date(2025, 12, 1)
      [] target_month = "2026-01" -> Date(2026, 1, 1)
      [] OTHER -> NoDate

\* <<first_day, next_month>>
get_month_range(target_month, today) ==
    LET first_day == IF target_month # "" THEN [StrpTime(target_month) EXCEPT !.d = 1]
                     ELSE [today EXCEPT !.d = 1]
        next_month == IF first_day.m = 12 THEN Date(first_day.y + 1, 1, 1)
                      ELSE Date(first_day.y, first_day.m + 1, 1)
    IN  <<first_day, next_month>>

\* get_daily_totals(user_id, start_date, end_date, session)
get_daily_totals(L, user_id, start_date, end_date) ==
    MergeTotals(GroupByDay(L, DailyFilter(L, user_id, "sender_id", start_date, end_date)),
                GroupByDay(L, DailyFilter(L, user_id, "receiver_id", start_date, end_date)))

\* the reports of every row of users (deleted ones too) for the month,
\* written over the files of the same names
generate_monthly_reports(target_month, today) ==
    LET range == get_month_range(target_month, today)
        start_date == range[1]
        end_date == range[2]
        names == {<<u, DateIso(start_date)>> : u \in DOMAIN users}
        old == IF rep.kind = "monthly" THEN rep.result ELSE <<>>
    IN  /\ \E payments \in [DOMAIN users -> UNION {get_payments_by_user(Visible, u,
                                start_date, end_date, TRUE) : u \in DOMAIN users}] :
            /\ \A u \in DOMAIN users :
                    payments[u] \in get_payments_by_user(Visible, u, start_date,
                                                         end_date, TRUE)
            /\ rep' = [NoRequest EXCEPT
                    !.kind = "monthly", !.key = target_month,
                    !.start_date = start_date, !.end_date = end_date,
                    !.db = TRUE, !.pc = "done",
                    !.result = [f \in DOMAIN old \cup names |->
                        IF f \in names
                        THEN [payments |-> payments[f[1]],
                              daily_totals |-> get_daily_totals(Visible, f[1],
                                                    start_date, end_date)]
                        ELSE old[f]]]
        /\ ev' = NoEvent
        /\ UNCHANGED <<users, currency, ledger, rejected, imp, con, nops, vrec, vres>>

\* a ledger around the turn of the year: a transaction in mid November, one
\* at the midnight that starts December, one in the last second of the
\* year and one at the midnight that starts January
MonthlyRow(id, sender, receiver, amount, ts) ==
    [id |-> id, sender_id |-> sender, receiver_id |-> receiver, amount |-> Fin(amount),
     currency |-> "USD", timestamp |-> ts, status |-> "completed"]

MonthlyRows ==
    <<MonthlyRow("m1", "user1", "user2", 100, DateTime(2025, 11, 15, 43200, "naive")),
      MonthlyRow("m2", "user1", "user2", 250, DateTime(2025, 12, 1, 0, "naive")),
      MonthlyRow("m3", "user2", "user1", 20000, DateTime(2025, 12, 31, 86399, "naive")),
      MonthlyRow("m4", "user2", "user1", 5, DateTime(2026, 1, 1, 0, "naive"))>>

\* the rows of MonthlyRows numbered in S, in order
MonthlyLedger(S) ==
    LET F[k \in 0..Len(MonthlyRows)] ==
            IF k = 0 THEN <<>>
            ELSE IF k \in S THEN Append(F[k - 1], MonthlyRows[k])
            ELSE F[k - 1]
    IN  F[Len(MonthlyRows)]

InitM ==
    /\ users = SeedUsers
    /\ currency = SeedCurrencies
    /\ ledger \in {MonthlyLedger(S) : S \in SUBSET (1..Len(MonthlyRows))}
    /\ rejected = <<>>
    /\ imp = [i \in Importers |-> ImporterIdle]
    /\ con = [c \in Consumers |-> ConsumerIdle]
    /\ nops = 0
    /\ ev = NoEvent
    /\ vrec = NoRecord
    /\ vres = [row |-> NoVerdict, msg |-> NoVerdict]
    /\ rep = NoRequest

NextM ==
    \E target_month \in TargetMonths : \E today \in Todays :
        generate_monthly_reports(target_month, today)

SpecM == InitM /\ [][NextM]_vars

(***************************************************************************)
(* Properties                                                              *)
(***************************************************************************)
Last(q) == q[Len(q)]
CountId(rows, id) == Cardinality({k \in 1..Len(rows) : rows[k].id = id})
StoreErrors == {"UniqueViolation", "ForeignKeyViolation", "DeadlockDetected"}

\* C1: in every reachable state, whatever the interleaving of import runs
\* and consumers, the committed ledger holds at most one Transaction per id.
C1_UniqueLedgerId ==
    \A k1, k2 \in 1..Len(ledger) : ledger[k1].id = ledger[k2].id => k1 = k2

\* the unique constraint has rejected the insert of a racing ingester
C1_Witness ==
    /\ ev.reason = "UniqueViolation"
    /\ CountId(ledger, "tx1") = 1

\* C3: the ingester whose insert the unique-id constraint rejects ends with
\* outcome Duplicate: nothing is raised to its caller and no RejectedRecord
\* is written for the record.
C3_RaceLoserIsDuplicate ==
    /\ ev.reason = "UniqueViolation" => ev.out = "Duplicate"
    /\ \A k \in 1..Len(rejected) : rejected[k].reason # "UniqueViolation"

\* what the claims call a valid raw record: every required field present
\* and non-empty, amount, timestamp and status well-formed
Filled(rec) ==
    \A f \in FieldNames : rec[f].t # "absent" /\ rec[f] # Str("") /\ rec[f] # None
WellFormed(rec) ==
    /\ Filled(rec)
    /\ PyFloat(rec["amount"]).ok
    /\ PyFromIso(rec["timestamp"]).ok
    /\ rec["status"].t = "str" /\ rec["status"].v \in TransactionStatus
KnownReferences(rec) ==
    /\ rec["sender_id"].v \in DOMAIN users
    /\ rec["receiver_id"].v \in DOMAIN users
    /\ rec["currency"].v \in DOMAIN currency
IsRecord(input) == input.kind \in {"row", "object"}
Decided(e) == e.out \in {"Accepted", "Duplicate", "Quarantined"}

\* Transactions with this id that ingester p has before it: the committed
\* ones and, for an import run, those of its session
Known(l, st, p, id) ==
    CountId(l, id)
        + (IF p \in Importers
           THEN CountId(st[p].flushed.tx, id) + CountId(st[p].new.tx, id)
           ELSE 0)

IngestOnce(withReferences) ==
    \A p \in Importers \cup Consumers :
        (/\ ev'.who = p
         /\ Decided(ev')
         /\ IsRecord(ev'.input)
         /\ WellFormed(ev'.input.rec)
         /\ withReferences => KnownReferences(ev'.input.rec))
        => LET id == ev'.input.rec["transaction_id"].v
           IN  /\ Known(ledger, imp, p, id) = 0 => ev'.out = "Accepted"
               /\ Known(ledger, imp, p, id) > 0 =>
                        ev'.out = "Duplicate" /\ ledger' = ledger
               /\ Known(ledger', imp', p, id) = 1

FirstMissing(rec) ==
    Min({i \in 1..Len(required_fields) :
            rec[required_fields[i]].t = "absent" \/ rec[required_fields[i]] = Str("")})

C4_MissingFieldQuarantined ==
    (ev.out # "" /\ IsRecord(ev.input) /\ ~Filled(ev.input.rec))
        => /\ ev.out = "Quarantined"
           /\ ev.reason = "Missing field: " \o required_fields[FirstMissing(ev.input.rec)]

\* the verdict the claims give a record with every field filled in: the
\* first of amount, timestamp, status that fails
FirstFailure(rec) ==
    CASE ~PyFloat(rec["amount"]).ok -> Verdict(FALSE, PyFloat(rec["amount"]).err)
      [] PyFloat(rec["amount"]).ok /\ ~PyFromIso(rec["timestamp"]).ok ->
            Verdict(FALSE, PyFromIso(rec["timestamp"]).err)
      [] PyFloat(rec["amount"]).ok /\ PyFromIso(rec["timestamp"]).ok
            /\ rec["status"].v \notin {"pending", "completed", "failed"} ->
            Verdict(FALSE, "Invalid status: " \o rec["status"].v)
      [] OTHER -> Verdict(TRUE, "")

\* C5: with all required fields present, both validators check amount, then
\* timestamp, then status and return the first failure; a record passing
\* all three is valid.
C5_FirstFailureWins ==
    Filled(vrec) =>
        /\ vres.row # NoVerdict => vres.row = FirstFailure(vrec)
        /\ vres.msg # NoVerdict => vres.msg = FirstFailure(vrec)

\* a bad amount reported although timestamp and status are bad too
C5_Witness ==
    /\ Filled(vrec)
    /\ vrec["amount"] = Str("not_a_number")
    /\ vrec["timestamp"] = Str("bad_time")
    /\ vrec["status"] = Str("bad_status")
    /\ vres.row = Verdict(FALSE, "could not convert string to float: 'not_a_number'")
    /\ vres.msg = vres.row

\* C6: validate_row and validate_message give every raw record the same
\* verdict and the same reason.
C6_SameVerdict ==
    (vres.row # NoVerdict /\ vres.msg # NoVerdict) => vres.row = vres.msg

\* C7 (as amended): an invalid row does not end the run: it is Quarantined,
\* its RejectedRecord joins the session and the run reads on; a run ends at
\* end of input or with a store error, and a run that reached end of input
\* and committed gave every row exactly one outcome.
C7_InvalidRowDoesNotAbort ==
    [][\A i \in Importers :
        /\ (/\ imp'[i].nread = imp[i].nread + 1
            /\ ev'.who = i
            /\ ~WellFormed(ev'.input.rec))
           => /\ imp'[i].pc = "running"
              /\ ev'.out = "Quarantined"
              /\ imp'[i].nout = imp[i].nout + 1
              /\ Len(imp'[i].new.rej) = Len(imp[i].new.rej) + 1
              /\ Last(imp'[i].new.rej).payload = RowPayload(ev'.input.rec)
        /\ imp'[i].pc = "failed" => imp'[i].err \in StoreErrors
        /\ imp'[i].pc = "done" => imp'[i].nout = imp'[i].nread]_vars

\* a valid row accepted after an invalid one of the same run
C7_Witness ==
    \E i \in Importers :
        /\ ev.who = i
        /\ ev.out = "Accepted"
        /\ Len(imp[i].flushed.rej) > 0

\* C7 (as stated): a run ends only at end of input, every row having got
\* exactly one outcome.
C7_AsStated ==
    \A i \in Importers :
        /\ imp[i].pc # "failed"
        /\ imp[i].pc = "done" => imp[i].nout = imp[i].nread

\* C8: a body that is not a JSON object (undecodable bytes, text that is not
\* JSON, another JSON value) is quarantined: callback returns, one
\* RejectedRecord holds the error, the body and "queue", and the consumer
\* takes the next message.
Unparseable(body) == body.kind \in {"badbytes", "notjson", "list", "int"}

C8_MalformedBodyQuarantined ==
    (ev.src = "queue" /\ Unparseable(ev.input))
        => /\ ev.out = "Quarantined"
           /\ con[ev.who].pc = "idle"
           /\ rejected # <<>>
           /\ Last(rejected) = RejectedRecord(ev.reason, BodyPayload(ev.input), "queue")

\* C9: a failed insert that is no duplicate-id conflict is raised to the
\* caller of the ingest, in both paths, and not handled locally.
C9_StoreFailureSurfaced ==
    /\ ev.reason = "ForeignKeyViolation" => ev.out = "Raised"
    /\ \A k \in 1..Len(rejected) : rejected[k].reason # "ForeignKeyViolation"

\* C10: when a store write fails in an import run, what the earlier rows of
\* the run produced is committed in the store after the run.
InTable(x, rows) == \E k \in 1..Len(rows) : rows[k] = x

C10_EarlierRowsStayCommitted ==
    [][\A i \in Importers :
        (imp[i].pc # "failed" /\ imp'[i].pc = "failed")
        => /\ \A k \in 1..Len(imp[i].flushed.tx) : InTable(imp[i].flushed.tx[k], ledger')
           /\ \A k \in 1..Len(imp[i].flushed.rej) :
                    InTable(imp[i].flushed.rej[k], rejected')
           /\ \A k \in 1..Len(imp[i].new.rej) : InTable(imp[i].new.rej[k], rejected')]_vars

\* the Transactions and RejectedRecords of an import run's session, flushed
\* or pending
SessionTx(st) == st.flushed.tx \o st.new.tx
SessionRej(st) == st.flushed.rej \o st.new.rej

\* C11: ingesting a valid record whose id is already in the ledger is a
\* no-op: the outcome is Duplicate, no ledger row changes, no RejectedRecord
\* is added (to the store or to the run's session) and no error is raised.
C11_DuplicateIsNoOp ==
    [][\A p \in Importers \cup Consumers :
        (/\ ev'.who = p
         /\ ev'.out # ""
         /\ IsRecord(ev'.input)
         /\ WellFormed(ev'.input.rec)
         /\ ev'.input.rec["transaction_id"].v \in Ids(ledger))
        => /\ ev'.out = "Duplicate"
           /\ ledger' = ledger
           /\ rejected' = rejected
           /\ p \in Importers =>
                /\ SessionRej(imp'[p]) = SessionRej(imp[p])
                /\ SessionTx(imp'[p]) = SessionTx(imp[p])]_vars

\* the validator's verdict on the input a RejectedRecord's payload holds (a
\* body that is not JSON is invalid, the parse error being the reason)
PayloadVerdict(r) ==
    IF r.payload.of.kind = "row" THEN validate_row(r.payload.of.rec)
    ELSE IF JsonLoads(r.payload.of).ok THEN validate_message(JsonLoads(r.payload.of).data)
    ELSE Verdict(FALSE, JsonLoads(r.payload.of).err)

\* C12: a RejectedRecord of the batch path has source "csv", one of the
\* queue path has source "queue"; its payload is the raw record it was
\* written for and its reason is the validator's reason for that record.
RejectedAsValidated(r) ==
    /\ r.payload.of.kind = "row" =>
            r.source = "csv" /\ r.payload = RowPayload(r.payload.of.rec)
    /\ r.payload.of.kind # "row" =>
            r.source = "queue" /\ r.payload = BodyPayload(r.payload.of)
    /\ ~PayloadVerdict(r).valid
    /\ r.reason = PayloadVerdict(r).error

C12_RejectedAsValidated ==
    /\ \A k \in 1..Len(rejected) : RejectedAsValidated(rejected[k])
    /\ \A i \in Importers : \A k \in 1..Len(SessionRej(imp[i])) :
            RejectedAsValidated(SessionRej(imp[i])[k])

\* C13: the threshold is advisory: a valid record with a new id and known
\* references that gets an outcome is Accepted and its Transaction is the
\* one built from its fields, whether its amount is above the threshold or
\* not; the "Suspicious" warning comes with an Accepted outcome only.
C13_ThresholdAdvisory ==
    [][\A p \in Importers \cup Consumers :
        /\ (/\ ev'.who = p
            /\ Decided(ev')
            /\ IsRecord(ev'.input)
            /\ WellFormed(ev'.input.rec)
            /\ KnownReferences(ev'.input.rec)
            /\ Known(ledger, imp, p, ev'.input.rec["transaction_id"].v) = 0)
           => /\ ev'.out = "Accepted"
              /\ p \in Importers =>
                    /\ imp'[p].new.tx = <<Transaction(ev'.input.rec)>>
                    /\ SessionRej(imp'[p]) = SessionRej(imp[p])
              /\ p \in Consumers =>
                    /\ ledger' = Append(ledger, Transaction(ev'.input.rec))
                    /\ rejected' = rejected
        /\ (ev'.who = p /\ ev'.susp) => ev'.out = "Accepted"]_vars

\* a record above the threshold is in the ledger as it was ingested, next
\* to one that is not above it
C13_Witness ==
    /\ \E k \in 1..Len(ledger) :
            ledger[k] = Transaction(TxA2) /\ ledger[k].amount = Fin(20000)
    /\ \E k \in 1..Len(ledger) : ledger[k] = Transaction(TxB)

\* C14: in an import run, a valid row whose id is neither in the ledger nor
\* in the run's session adds exactly its Transaction to the session, a valid
\* row whose id is there yields Duplicate and adds nothing, an invalid row
\* adds no Transaction; the commit of a run that completes appends exactly
\* the session's Transactions, one per id and none already in the ledger.
C14_BatchGain ==
    [][\A i \in Importers :
        /\ (ev'.who = i /\ Decided(ev') /\ IsRecord(ev'.input)) =>
            LET rec == ev'.input.rec
                id == rec["transaction_id"].v
                seen == Ids(ledger) \cup Ids(SessionTx(imp[i]))
            IN  /\ ledger' = ledger
                /\ (WellFormed(rec) /\ id \in seen) =>
                        /\ ev'.out = "Duplicate"
                        /\ SessionTx(imp'[i]) = SessionTx(imp[i])
                /\ (WellFormed(rec) /\ id \notin seen) =>
                        /\ ev'.out = "Accepted"
                        /\ SessionTx(imp'[i]) = Append(SessionTx(imp[i]), Transaction(rec))
                /\ ~WellFormed(rec) => SessionTx(imp'[i]) = SessionTx(imp[i])
        /\ (imp[i].pc # "done" /\ imp'[i].pc = "done") =>
                /\ ledger' = ledger \o SessionTx(imp[i])
                /\ Ids(SessionTx(imp[i])) \cap Ids(ledger) = {}
                /\ Cardinality(Ids(SessionTx(imp[i]))) = Len(SessionTx(imp[i]))]_vars

\* a second run over a file with tx1, which the first run committed, and the
\* new tx2: one Duplicate, one Accepted, and the ledger has gained one row
C14_Witness ==
    /\ \A i \in Importers : imp[i].pc = "done"
    /\ \E i \in Importers : imp[i].nread = 1
    /\ \E i \in Importers : imp[i].nread = 2 /\ imp[i].nout = 2
    /\ Len(ledger) = 2
    /\ ledger[1].id = "tx1" /\ ledger[2].id = "tx2"
    /\ rejected = <<>>

IsPrefix(a, b) == Len(a) <= Len(b) /\ SubSeq(b, 1, Len(a)) = a

\* C15: ledger and quarantine are append-only under every operation (ingest
\* from either source, report, create, update and soft-delete of users and
\* currencies): a step keeps every committed row as it is and where it is;
\* a soft-delete of a user leaves the ledger and the user's reports as they
\* were.
C15_AppendOnly ==
    [][/\ IsPrefix(ledger, ledger')
       /\ IsPrefix(rejected, rejected')
       /\ \A u \in DOMAIN users :
            (u \in DOMAIN users' /\ ~users[u].deleted /\ users'[u].deleted) =>
                /\ ledger' = ledger
                /\ get_payments_by_user(ledger', u, NoDate, NoDate, TRUE)
                        = get_payments_by_user(ledger, u, NoDate, NoDate, TRUE)
                /\ \A role \in {"sender_id", "receiver_id"} :
                        GroupByDay(ledger', DailyFilter(ledger', u, role, NoDate, NoDate))
                            = GroupByDay(ledger, DailyFilter(ledger, u, role, NoDate, NoDate))]_vars

\* user1 is soft-deleted and its transaction is in the ledger and in its
\* payments
C15_Witness ==
    /\ users["user1"].deleted
    /\ rep.kind = "delete_user" /\ rep.status = 204
    /\ ledger = <<Transaction(TxA)>>
    /\ get_payments_by_user(ledger, "user1", NoDate, NoDate, TRUE)
            = {<<PaymentDict(Transaction(TxA))>>}

\* the range of the claims: start <= timestamp <= end, a bound not given
\* being no bound
InClaimRange(ts, start_date, end_date) ==
    /\ start_date # NoDate => Le(DateKey(start_date), TsKey(ts))
    /\ end_date # NoDate => Le(TsKey(ts), DateKey(end_date))

\* the ledger rows of a request's user in the request's range, in a role or
\* in any
RowsOf(r, roles) ==
    {k \in 1..Len(ledger) :
        /\ \E role \in roles : ledger[k][role] = r.key
        /\ InClaimRange(ledger[k].timestamp, r.start_date, r.end_date)}

BothRoles == {"sender_id", "receiver_id"}
TimestampOf(id) == ledger[CHOOSE k \in 1..Len(ledger) : ledger[k].id = id].timestamp

\* C16: paymentsByUser returns exactly the ledger transactions in which the
\* user is sender or receiver and whose timestamp is >= start and <= end,
\* each once, in ascending timestamp order.
C16_PaymentsByUser ==
    rep.kind = "payments" =>
        /\ rep.pc = "done"
        /\ Len(rep.result) = Cardinality(RowsOf(rep, BothRoles))
        /\ {rep.result[k] : k \in 1..Len(rep.result)}
                = {PaymentDict(ledger[k]) : k \in RowsOf(rep, BothRoles)}
        /\ \A a, b \in 1..Len(rep.result) :
                a < b => Le(TsKey(TimestampOf(rep.result[a].id)),
                            TsKey(TimestampOf(rep.result[b].id)))

\* the day a string of the output names
DayOfIso(s) == CHOOSE d \in {Date(2025, 5, 1), Date(2025, 5, 2), Date(2025, 5, 3)} :
                    DateIso(d) = s

OnDay(K, d) == {k \in K : FuncDate(ledger[k].timestamp) = d}

\* C17: each entry of dailyTotals has total_sent equal to the sum of amount
\* over the in-range transactions of that day the user sent and
\* total_received equal to the sum over those it received, of every status;
\* a side with no transaction that day is 0.0.
C17_DailySums ==
    (rep.kind = "daily" /\ rep.pc = "done") =>
        \A k \in 1..Len(rep.result) :
            LET d == DayOfIso(rep.result[k].day)
            IN  /\ rep.result[k].total_sent
                        = FuncSum(ledger, OnDay(RowsOf(rep, {"sender_id"}), d))
                /\ rep.result[k].total_received
                        = FuncSum(ledger, OnDay(RowsOf(rep, {"receiver_id"}), d))

\* user1 over the whole ledger: completed, pending and failed transactions
\* summed, sent and received, on two days
C17_Witness ==
    /\ rep.kind = "daily" /\ rep.pc = "done" /\ rep.key = "user1"
    /\ Len(ledger) = 4
    /\ rep.result =
        <<[day |-> "2025-05-01", total_sent |-> Fin(95), total_received |-> Fin(0 - 5)],
          [day |-> "2025-05-02", total_sent |-> Fin(20000), total_received |-> Fin(250)]>>

\* C18: the days dailyTotals lists are exactly the days on which the user
\* sent or received an in-range transaction, each once, ascending.
C18_DaysListed ==
    (rep.kind = "daily" /\ rep.pc = "done") =>
        /\ {rep.result[k].day : k \in 1..Len(rep.result)}
                = {DateIso(FuncDate(ledger[k].timestamp)) : k \in RowsOf(rep, BothRoles)}
        /\ \A a, b \in 1..Len(rep.result) :
                a < b => Lt(DateKey(DayOfIso(rep.result[a].day)),
                            DateKey(DayOfIso(rep.result[b].day)))

\* C19: for a user id that is neither sender nor receiver of a ledger
\* transaction, both reports return an empty sequence and raise nothing, in
\* either call form.
C19_NoTransactionsEmpty ==
    (/\ rep.kind \in {"payments", "daily"}
     /\ rep.pc \in {"done", "raised"}
     /\ \A k \in 1..Len(ledger) :
            ledger[k].sender_id # rep.key /\ ledger[k].receiver_id # rep.key)
    => rep.pc = "done" /\ rep.result = <<>>

\* C20: the reports are read-only and read committed rows only: a report
\* step leaves ledger, quarantine, users and currencies as they are, and
\* what it returns is computed from the committed ledger of that moment,
\* whatever open import runs have written.
C20_ReadOnlyCommitted ==
    [][(rep' # rep /\ rep'.kind \in {"payments", "daily"}) =>
        /\ UNCHANGED <<ledger, rejected, users, currency, imp, con>>
        /\ (rep'.kind = "payments" /\ rep'.pc = "done") =>
                rep'.result \in get_payments_by_user(ledger, rep'.key,
                                    rep'.start_date, rep'.end_date, rep'.db)
        /\ (rep'.kind = "daily" /\ rep'.pc = "sent") =>
                rep'.sent = GroupByDay(ledger, DailyFilter(ledger, rep'.key,
                                "sender_id", rep'.start_date, rep'.end_date))
        /\ (rep'.kind = "daily" /\ rep'.pc = "done") =>
                rep'.result = MergeTotals(rep.sent,
                    GroupByDay(ledger, DailyFilter(ledger, rep.key, "receiver_id",
                        rep.start_date, rep.end_date)))]_vars

\* a report on user1 returned nothing while an import run held a flushed,
\* uncommitted Transaction of user1
C20_Witness ==
    /\ rep.kind = "payments" /\ rep.pc = "done" /\ rep.key = "user1"
    /\ rep.result = <<>>
    /\ ledger = <<>>
    /\ imp["i1"].pc = "running"
    /\ \E k \in 1..Len(imp["i1"].flushed.tx) : imp["i1"].flushed.tx[k].sender_id = "user1"

(***************************************************************************)
(* Creation, soft delete and listing of users and currencies               *)
(***************************************************************************)
\* the step answers a request to the API (or runs a management command)
RequestStep ==
    /\ nops' # nops
    /\ imp' = imp
    /\ con' = con
    /\ rejected' = rejected
    /\ ev' = NoEvent

\* the request that the step answers is a create of a key the table holds
CreateOfExisting(kind, table) ==
    /\ RequestStep
    /\ rep'.kind = kind
    /\ rep'.key \in DOMAIN table

\* C21: a create of a user id or currency code that the store already holds,
\* soft-deleted or not, is answered 409 ("already exists" on the command
\* line) and leaves the existing row, its name and its deleted flag, as it was
C21_CreateExistingRejected ==
    [][/\ CreateOfExisting("create_user", users)
            => rep'.status = 409 /\ users' = users /\ currency' = currency
       /\ CreateOfExisting("create_currency", currency)
            => rep'.status = 409 /\ currency' = currency /\ users' = users]_vars

\* a create of a soft-deleted user has been answered 409, the row still deleted
C21_Witness ==
    /\ rep.kind = "create_user"
    /\ rep.status = 409
    /\ rep.key \in DOMAIN users
    /\ users[rep.key].deleted
    /\ users[rep.key].name = SeedUsers[rep.key].name

(***************************************************************************)
(* Two rows with one id in a single import run                             *)
(***************************************************************************)
\* the Transactions with this id that the run's session holds uncommitted
HeldWithId(i, id) == SelectSeq(SessionTx(imp[i]), LAMBDA tx : tx.id = id)

\* a valid row is read whose id an earlier row of the same run brought into
\* the session: it is Duplicate, no error is raised at it and the session
\* keeps the one Transaction of the first row
SecondRowIsDuplicate(i) ==
    LET row == ev'.input.rec
        id == row["transaction_id"].v
    IN  (/\ ev'.who = i
         /\ ev'.input.kind = "row"
         /\ validate_row(row).valid
         /\ id \notin Ids(ledger)
         /\ HeldWithId(i, id) # <<>>)
        => /\ ev'.out = "Duplicate"
           /\ imp'[i].pc = "running"
           /\ SessionTx(imp'[i]) = SessionTx(imp[i])
           /\ Len(HeldWithId(i, id)) = 1

\* the run's end: the commit writes the session's Transactions
RunCommitsHeld(i) ==
    (imp[i].pc \in {"running", "commit"} /\ imp'[i].pc = "done")
        => ledger' = ledger \o SessionTx(imp[i])

\* C22: in one import run, alone on the store, a valid row with the id of an
\* earlier valid row of the run (the id new to the ledger) is Duplicate: its
\* session.get sees the uncommitted insert of the first row, no store error
\* is raised, and the commit writes exactly one Transaction with that id, the
\* first row's.
C22_SecondRowInRunDuplicate ==
    [][\A i \in Importers : SecondRowIsDuplicate(i) /\ RunCommitsHeld(i)]_vars

(***************************************************************************)
(* What is quarantined                                                     *)
(***************************************************************************)
\* C23: every RejectedRecord, committed or in an import run's session, was
\* written for a raw input that failed parsing or validation: no input that
\* the validator finds valid has a RejectedRecord.
C23_QuarantinedOnlyIfInvalid ==
    /\ \A k \in 1..Len(rejected) : ~PayloadVerdict(rejected[k]).valid
    /\ \A i \in Importers : \A k \in 1..Len(SessionRej(imp[i])) :
            ~PayloadVerdict(SessionRej(imp[i])[k]).valid

(***************************************************************************)
(* The "suspicious" signal                                                 *)
(***************************************************************************)
\* the parsed amount of the record is strictly greater than the threshold
AboveThreshold(rec) ==
    LET a == PyFloat(rec["amount"])
    IN  a.ok /\ ((a.val.k = "fin" /\ a.val.n > SUSPICIOUS_AMOUNT) \/ a.val.k = "inf")

\* C24: the step that gives an input its outcome logs the "Suspicious
\* transaction" warning exactly when the outcome is Accepted and the parsed
\* amount is strictly greater than 10000, in the batch path and in the queue
\* path alike.
C24_SuspiciousSignal ==
    ev.out # "" =>
        (ev.susp <=> (ev.out = "Accepted" /\ AboveThreshold(ev.input.rec)))

(***************************************************************************)
(* The two call forms and the two reports                                  *)
(***************************************************************************)
\* C25: what get_payments_by_user returns in one call form (given a db
\* session or not) is what it returns in the other form on the same ledger,
\* user, start and end: both forms treat a timestamp equal to end alike.
C25_SameRangePolicy ==
    (rep.kind = "payments" /\ rep.pc = "done") =>
        rep.result \in get_payments_by_user(ledger, rep.key, rep.start_date,
                                            rep.end_date, ~rep.db)

\* the sum of a field over the entries of a daily-totals output
RECURSIVE SumOver(_, _)
SumOver(entries, field) ==
    IF entries = <<>> THEN Fin(0)
    ELSE FloatAdd(entries[1][field], SumOver(Tail(entries), field))

\* the rows get_payments_by_user lists for the request, called with a db
\* session, in which the user has the role
ListedIn(r, role) ==
    {k \in PaymentsFilter(ledger, r.key, r.start_date, r.end_date, TRUE) :
        ledger[k][role] = r.key}

\* C26: called with a db session for one user, start and end, the total_sent
\* entries of get_daily_totals add up to the amounts of the transactions
\* get_payments_by_user lists with the user as sender, and the
\* total_received entries to those with the user as receiver.
C26_PaymentsAndTotalsAgree ==
    (rep.kind = "daily" /\ rep.pc = "done" /\ rep.db) =>
        /\ SumOver(rep.result, "total_sent") = FuncSum(ledger, ListedIn(rep, "sender_id"))
        /\ SumOver(rep.result, "total_received")
                = FuncSum(ledger, ListedIn(rep, "receiver_id"))

(***************************************************************************)
(* An import run towards the shared store                                  *)
(***************************************************************************)
\* a step of run i: its commit writes everything the session holds at once,
\* its failure writes nothing and empties the session, and any other step of
\* the run leaves ledger and quarantine as they are
AllOrNothing(i) ==
    /\ (imp[i].pc # "done" /\ imp'[i].pc = "done") =>
            /\ ledger' = ledger \o SessionTx(imp[i])
            /\ rejected' = rejected \o SessionRej(imp[i])
    /\ (imp[i].pc # "failed" /\ imp'[i].pc = "failed") =>
            /\ ledger' = ledger
            /\ rejected' = rejected
            /\ SessionTx(imp'[i]) = <<>>
            /\ SessionRej(imp'[i]) = <<>>
    /\ (imp'[i] # imp[i] /\ imp'[i].pc \notin {"done", "failed"}) =>
            /\ ledger' = ledger
            /\ rejected' = rejected

\* what a report or another ingester reads while runs are open is the
\* committed ledger, without the rows of any open session
OthersReadCommitted ==
    /\ (RequestStep /\ rep'.kind = "payments" /\ rep'.pc = "done") =>
            rep'.result \in get_payments_by_user(ledger, rep'.key, rep'.start_date,
                                                 rep'.end_date, rep'.db)
    /\ \A c \in Consumers :
            (ev'.who = c /\ ev'.out = "Duplicate") =>
                ev'.input.rec["transaction_id"].v \in Ids(ledger)

\* C27: an import run is all-or-nothing towards the store: its Transactions
\* and RejectedRecords become visible together, at its commit; before that
\* readers and other ingesters see none of them, and a run that ends with an
\* error leaves none of them behind.
C27_RunAllOrNothing == [][OthersReadCommitted /\ \A i \in Importers : AllOrNothing(i)]_vars

\* a run of two rows that failed at its commit on a foreign key, a report
\* having been answered while it was open: nothing of the run is in the store
C27_Witness ==
    /\ \E i \in Importers :
            imp[i].pc = "failed" /\ imp[i].nread = 2 /\ imp[i].err = "ForeignKeyViolation"
    /\ ev.out = "Raised" /\ ev.input = Body("row", NoRecord)
    /\ rep.kind = "payments" /\ rep.pc = "done"
    /\ ledger = <<>>
    /\ rejected = <<>>

(***************************************************************************)
(* Monthly reports                                                         *)
(***************************************************************************)
\* the name of the report file of the user for the month of the timestamp
OwnMonthFile(u, ts) == <<u, DateIso(Date(ts.y, ts.m, 1))>>

\* the report files of the user that list the transaction in their payments,
\* and those whose daily totals have an entry for its day
ListedInFiles(u, tx) ==
    {f \in DOMAIN rep.result :
        /\ f[1] = u
        /\ \E j \in 1..Len(rep.result[f].payments) : rep.result[f].payments[j].id = tx.id}
CountedInFiles(u, tx) ==
    {f \in DOMAIN rep.result :
        /\ f[1] = u
        /\ \E j \in 1..Len(rep.result[f].daily_totals) :
                rep.result[f].daily_totals[j].day = DateIso(FuncDate(tx.timestamp))}

\* C28: the monthly reports partition the ledger by month: of the report
\* files of a user, the one of the transaction's own month, and no other,
\* lists the transaction in its payments and counts it in its daily totals.
C28_MonthlyPartition ==
    rep.kind = "monthly" =>
        \A k \in 1..Len(ledger) : \A u \in {ledger[k].sender_id, ledger[k].receiver_id} :
            LET own == {OwnMonthFile(u, ledger[k].timestamp)} \cap DOMAIN rep.result
            IN  /\ ListedInFiles(u, ledger[k]) = own
                /\ CountedInFiles(u, ledger[k]) = own

(***************************************************************************)
(* Soft delete                                                             *)
(***************************************************************************)
\* a row of the table that is soft-deleted stays as it is, name and flag;
\* an update or a delete of it is answered 404 and a list leaves it out
Absorbing(table, table2, key, update, delete, list, column) ==
    (key \in DOMAIN table /\ table[key].deleted) =>
        /\ key \in DOMAIN table2
        /\ table2[key] = table[key]
        /\ (RequestStep /\ rep'.kind \in {update, delete} /\ rep'.key = key) =>
                rep'.status = 404 /\ table2 = table
        /\ (RequestStep /\ rep'.kind = list) =>
                \A j \in 1..Len(rep'.result) : rep'.result[j][column] # key

\* C29: soft delete is absorbing for users and currencies: whatever request
\* or command follows, a soft-deleted row stays deleted and keeps its name,
\* update and delete of it answer 404 and change nothing, and the lists do
\* not show it.
C29_SoftDeleteAbsorbing ==
    [][/\ \A u \in DOMAIN users :
            Absorbing(users, users', u, "update_user", "delete_user", "list_users", "id")
       /\ \A c \in DOMAIN currency :
            Absorbing(currency, currency', c, "update_currency", "delete_currency",
                      "list_currencies", "code")]_vars

\* user1 soft-deleted, then the list of users answered without it
C29_Witness ==
    /\ users["user1"].deleted
    /\ users["user1"].name = "Alice"
    /\ rep.kind = "list_users"
    /\ {rep.result[j].id : j \in 1..Len(rep.result)} = {"user2", "user3"}

(***************************************************************************)
(* Finite amounts                                                          *)
(***************************************************************************)
\* the amount of the record parses as a finite number
FiniteAmount(rec) == PyFloat(rec["amount"]).ok /\ PyFloat(rec["amount"]).val.k = "fin"

\* a verdict of a validator on the record: a record with every field filled
\* is valid only if its amount is finite, and is valid if the amount is
\* finite and the rest of the record is well-formed
FiniteOnly(verdict) ==
    verdict # NoVerdict =>
        /\ (Filled(vrec) /\ verdict.valid) => FiniteAmount(vrec)
        /\ (WellFormed(vrec) /\ FiniteAmount(vrec)) => verdict.valid

\* C30: validate_row and validate_message accept an amount only if it
\* parses as a finite number: a record whose amount text denotes infinity or
\* not-a-number is invalid, and finite amounts of any sign are accepted.
C30_FiniteAmountsOnly == FiniteOnly(vres.row) /\ FiniteOnly(vres.msg)

====
